---- MODULE Spec2Model ----
(***************************************************************************)
(* A model of belay's host side: the Device's function-registration        *)
(* namespaces (task / thread), fault remapping (_traceback_execute), the   *)
(* filesystem sync (Device.sync) and the command-line sync tool.           *)
(*                                                                         *)
(* Text is modelled as sequences of one-character strings, so that         *)
(* str.strip, str.split, str.startswith, int() and f-string formatting are *)
(* computed as Python computes them.                                       *)
(***************************************************************************)
EXTENDS Integers, Sequences, FiniteSets, TLC

VARIABLES
    \* ---- fault remapping, applied to one fault message --------------------
    tbLines,      \* the remote fault report, as the device composed it (line descriptors)
    tbMsg,        \* e.args[0]: the text of the fault message
    tbName,       \* name of the registered function
    tbLineno,     \* src_lineno: host line where the function starts
    tbOut,        \* what _traceback_execute raised
    tbPc          \* "ready" | "done" | "off"

tbVars == <<tbLines, tbMsg, tbName, tbLineno, tbOut, tbPc>>

VARIABLES
    \* ---- task / thread registration and proxy calls ----------------------
    hostFn,       \* the host function the program registers: its name and start line
    funcs,        \* the proxies (multi_executer closures) registration returned, in order
    ns,           \* attributes of the task / thread namespaces of the devices
    regOut,       \* how the last registration ended
    callee,       \* the callable the host called last: a proxy, or a namespace attribute
    callStack,    \* frames of the proxy call in progress, outermost first
    callLog,      \* remote commands sent and responses received by the call
    callOut       \* how the last proxy call ended

regVars == <<hostFn, funcs, ns, regOut, callee, callStack, callLog, callOut>>

VARIABLES
    \* ---- Device.sync ----------------------------------------------------
    folderKind,   \* what the folder argument names: "dir", "file" or "missing"
    local,        \* the objects under the local folder: relative path, kind, content
    syMinify,     \* the minify argument
    syKeep,       \* the keep argument
    devFiles,     \* the device's files: path -> content
    devDirs,      \* the device's directories
    all_files,    \* device global set by sync_begin, narrowed by the host
    all_dirs,     \* device global set by sync_begin
    src_files,    \* local files, sorted
    dst_files,    \* their destinations
    dst_hashes,   \* the remote digests
    syIdx,        \* position of the upload loop
    syPc,         \* position of the sync call
    syLog,        \* remote commands and uploads the current call issued
    syOut,        \* how the current call ended
    syRun,        \* number of sync calls begun
    syStart,      \* the device's files when the current call began
    syStartDirs   \* the device's directories when the current call began

syncVars == <<folderKind, local, syMinify, syKeep, devFiles, devDirs, all_files,
              all_dirs, src_files, dst_files, dst_hashes, syIdx, syPc, syLog,
              syOut, syRun, syStart, syStartDirs>>

VARIABLES
    \* ---- the sync command of the command line ----------------------------
    cliArgs,      \* port, folder, dst, password, keep, ignore, mpy_cross_binary as given
    cliKeep,      \* keep after `keep if keep else None`
    cliIgnore,    \* ignore after `ignore if ignore else None`
    cliPc,        \* where the command is
    transport,    \* the Device's transport: "closed" or "open"
    soft_reset,   \* what the constructor passed to enter_raw_repl
    cliCmds,      \* the remote commands the command caused, in order
    cliScope,     \* the with statement: "none", "body" (entered) or "left"
    cliExc        \* the exception that ended the command, or "none"

cliVars == <<cliArgs, cliKeep, cliIgnore, cliPc, transport, soft_reset, cliCmds,
             cliScope, cliExc>>

VARIABLES
    \* ---- a fault inside a registered function ------------------------
    srcKind,      \* how the function was registered: task or thread
    srcFn,        \* the host function: name, first line, number of lines
    srcMinify,    \* the minify option of the registration
    srcSent,      \* the source text transmitted to the device
    srcFault,     \* the fault the device reports: line of the transmitted text, error text
    srcRaised,    \* what the proxy call raised: exception and message
    srcPc         \* where the scenario is

srcVars == <<srcKind, srcFn, srcMinify, srcSent, srcFault, srcRaised, srcPc>>

VARIABLES
    \* ---- the project configuration -----------------------------------
    cfgInput,     \* the manifest section handed to BelayConfig: dependencies and group
    cfgOut,       \* what the construction gave: an exception or the config
    cfgPc         \* where the construction is

cfgVars == <<cfgInput, cfgOut, cfgPc>>

VARIABLES
    \* ---- one Invoke: Device.__call__ ---------------------------------
    invArgs,      \* cmd, deserialize and minify of the call
    invSent,      \* the texts handed to the transport for execution, in order
    invResp,      \* the bytes the device answered
    invOut,       \* what the call gave: an exception or a value
    invPc         \* where the call is

invVars == <<invArgs, invSent, invResp, invOut, invPc>>

vars == <<tbVars, regVars, syncVars, cliVars, srcVars, cfgVars, invVars>>

\* What an action of one part leaves alone.
notTb == <<regVars, syncVars, cliVars, srcVars, cfgVars, invVars>>
notReg == <<tbVars, syncVars, cliVars, srcVars, cfgVars, invVars>>
notSync == <<tbVars, regVars, cliVars, srcVars, cfgVars, invVars>>
notCli == <<tbVars, regVars, syncVars, srcVars, cfgVars, invVars>>
notSrc == <<tbVars, regVars, syncVars, cliVars, cfgVars, invVars>>
notCfg == <<tbVars, regVars, syncVars, cliVars, srcVars, invVars>>
notInv == <<tbVars, regVars, syncVars, cliVars, srcVars, cfgVars>>

--------------------------------------------------------------------------
(* Text helpers: Python's str operations on sequences of characters.      *)

\* Characters str.strip() removes.
Whitespace == {" ", "\t", "\r", "\n", "\f"}

DigitChars == {"0", "1", "2", "3", "4", "5", "6", "7", "8", "9"}

DigitVal(c) ==
    CASE c = "0" -> 0 [] c = "1" -> 1 [] c = "2" -> 2 [] c = "3" -> 3
      [] c = "4" -> 4 [] c = "5" -> 5 [] c = "6" -> 6 [] c = "7" -> 7
      [] c = "8" -> 8 [] c = "9" -> 9

DigitChar(d) ==
    CASE d = 0 -> "0" [] d = 1 -> "1" [] d = 2 -> "2" [] d = 3 -> "3"
      [] d = 4 -> "4" [] d = 5 -> "5" [] d = 6 -> "6" [] d = 7 -> "7"
      [] d = 8 -> "8" [] d = 9 -> "9"

\* s[k:] of Python (k >= 0).
DropFirst(s, k) == IF k >= Len(s) THEN <<>> ELSE SubSeq(s, k + 1, Len(s))

\* s[:k] of Python (k >= 0).
TakeFirst(s, k) == IF k >= Len(s) THEN s ELSE SubSeq(s, 1, k)

StartsWith(s, p) == Len(s) >= Len(p) /\ SubSeq(s, 1, Len(p)) = p

EndsWith(s, p) == Len(s) >= Len(p) /\ SubSeq(s, Len(s) - Len(p) + 1, Len(s)) = p

RECURSIVE LStrip(_)
LStrip(s) == IF s # <<>> /\ Head(s) \in Whitespace THEN LStrip(Tail(s)) ELSE s

RECURSIVE RStrip(_)
RStrip(s) ==
    IF s # <<>> /\ s[Len(s)] \in Whitespace THEN RStrip(SubSeq(s, 1, Len(s) - 1)) ELSE s

\* str.strip()
Strip(s) == RStrip(LStrip(s))

\* 1-based position of the first occurrence of character c in s, 0 when absent.
RECURSIVE FindFrom(_, _, _)
FindFrom(s, c, i) ==
    IF i > Len(s) THEN 0 ELSE IF s[i] = c THEN i ELSE FindFrom(s, c, i + 1)

Find(s, c) == FindFrom(s, c, 1)

\* s.split(c): the fields between every occurrence of c.
RECURSIVE SplitAll(_, _)
SplitAll(s, c) ==
    LET i == Find(s, c)
    IN  IF i = 0 THEN <<s>>
        ELSE <<TakeFirst(s, i - 1)>> \o SplitAll(DropFirst(s, i), c)

\* s.split(c, n): at most n splits, the last field keeps the rest.
RECURSIVE SplitMax(_, _, _)
SplitMax(s, c, n) ==
    LET i == Find(s, c)
    IN  IF n = 0 \/ i = 0 THEN <<s>>
        ELSE <<TakeFirst(s, i - 1)>> \o SplitMax(DropFirst(s, i), c, n - 1)

\* c.join(parts)
RECURSIVE Join(_, _)
Join(parts, c) ==
    IF parts = <<>> THEN <<>>
    ELSE IF Len(parts) = 1 THEN parts[1]
    ELSE parts[1] \o <<c>> \o Join(Tail(parts), c)

\* Text that int() accepts, after strip(): an optional sign, then digits that
\* single underscores may separate.
IsDigitsText(s) ==
    /\ s # <<>>
    /\ \A i \in 1..Len(s) : s[i] \in DigitChars \cup {"_"}
    /\ s[1] # "_" /\ s[Len(s)] # "_"
    /\ \A i \in 1..(Len(s) - 1) : ~(s[i] = "_" /\ s[i + 1] = "_")

Unsigned(s) == IF s # <<>> /\ Head(s) \in {"+", "-"} THEN Tail(s) ELSE s

IsIntText(s) == IsDigitsText(Unsigned(Strip(s)))

RECURSIVE DigitsValue(_, _)
DigitsValue(s, acc) ==
    IF s = <<>> THEN acc
    ELSE IF Head(s) = "_" THEN DigitsValue(Tail(s), acc)
    ELSE DigitsValue(Tail(s), 10 * acc + DigitVal(Head(s)))

\* int(s), for text that IsIntText accepts.
ParseInt(s) ==
    LET t == Strip(s)
        v == DigitsValue(Unsigned(t), 0)
    IN  IF t # <<>> /\ Head(t) = "-" THEN 0 - v ELSE v

RECURSIVE NatToStr(_)
NatToStr(n) ==
    IF n < 10 THEN <<DigitChar(n)>> ELSE NatToStr(n \div 10) \o <<DigitChar(n % 10)>>

\* str(n), as an f-string formats an int.
IntToStr(n) == IF n < 0 THEN <<"-">> \o NatToStr(0 - n) ELSE NatToStr(n)

--------------------------------------------------------------------------
(* Fault remapping: Device._traceback_execute.                            *)

\* The pseudo-file field the remote interpreter reports: File "<stdin>"
FileStdin == <<"F", "i", "l", "e", " ", "\"", "<", "s", "t", "d", "i", "n", ">", "\"">>

\* " in ", the start of the function field
InPrefix == <<" ", "i", "n", " ">>

\* The host file that holds the registered functions, and its lines as
\* linecache returns them (each with its newline).
SrcFile == <<"/", "p", "/", "a", "p", "p", ".", "p", "y">>

SrcFileLines ==
    << <<"d", "e", "f", " ", "f", "(", ")", ":", "\n">>,
       <<" ", " ", " ", " ", "a", " ", "=", " ", "1", "\n">>,
       <<"\t", "r", "e", "t", "u", "r", "n", " ", "a", "\n">>,
       <<"d", "e", "f", " ", "g", "(", ")", ":", "\n">>,
       <<" ", " ", " ", " ", "b", " ", "=", " ", "2", " ", "\n">>,
       <<" ", " ", " ", " ", "r", "e", "t", "u", "r", "n", " ", "b", "\n">>,
       <<"d", "e", "f", " ", "_", "b", "e", "l", "a", "y", "_", "t", "(", ")", ":", " ", "p", "a", "s", "s", "\n">>,
       <<"d", "e", "f", " ", "_", "_", "b", "e", "l", "a", "y", "(", ")", ":", " ", "p", "a", "s", "s", "\n">>,
       <<"d", "e", "f", " ", "_", "_", "s", "_", "_", "(", ")", ":", " ", "p", "a", "s", "s", "\n">>,
       <<"d", "e", "f", " ", "_", "_", "x", "(", ")", ":", " ", "p", "a", "s", "s", "\n">> >>

\* linecache.getline(src_file, lineno): the line, or "" when there is none.
GetLine(file, lineno) ==
    IF file = SrcFile /\ 1 <= lineno /\ lineno <= Len(SrcFileLines)
    THEN SrcFileLines[lineno]
    ELSE <<>>

\* Length of the prefix that lineno[6:] drops.
LinePrefixLen == 6

\* A remapping that forgets that remote lines count from 1.
CorrectedLinenoNoOffset(field, src_lineno) ==
    ParseInt(DropFirst(field, LinePrefixLen)) + src_lineno

\* lineno = int(lineno[6:]) - 1 + src_lineno
CorrectedLineno(field, src_lineno) ==
    ParseInt(DropFirst(field, LinePrefixLen)) - 1 + src_lineno

\* f'  File "{src_file}", line {lineno},{fn}'
RewrittenLine(src_file, lineno, fn) ==
    <<" ", " ", "F", "i", "l", "e", " ", "\"">> \o src_file \o <<"\"", ",", " ", "l", "i", "n", "e", " ">> \o IntToStr(lineno) \o <<",">> \o fn

\* "    " + linecache.getline(src_file, lineno).strip()
SourceLine(src_file, lineno) == <<" ", " ", " ", " ">> \o Strip(GetLine(src_file, lineno))

\* file != 'File "<stdin>"' or fn != f" in {name}"  (negated)
LineMatches(fields, name) ==
    /\ fields[1] = FileStdin
    /\ fields[3] = InPrefix \o name

PyboardException == "PyboardException"
ValueError == "ValueError"

\* The loop over the lines of the message, new_lines being built. An int() that
\* fails raises ValueError out of the handler.
RECURSIVE RemapLoop(_, _, _, _, _)
RemapLoop(lines, new_lines, src_file, src_lineno, name) ==
    IF lines = <<>> THEN [exc |-> PyboardException, new_lines |-> new_lines]
    ELSE
        LET line == Head(lines)
            fields == SplitMax(Strip(line), ",", 2)
        IN  IF Len(fields) # 3
            THEN RemapLoop(Tail(lines), Append(new_lines, line), src_file, src_lineno, name)
            ELSE IF ~LineMatches(fields, name)
            THEN RemapLoop(Tail(lines), Append(new_lines, line), src_file, src_lineno, name)
            ELSE IF ~IsIntText(DropFirst(fields[2], LinePrefixLen))
            THEN [exc |-> ValueError, new_lines |-> <<>>]
            ELSE
                LET lineno == CorrectedLineno(fields[2], src_lineno)
                IN  RemapLoop(Tail(lines),
                              new_lines \o << RewrittenLine(src_file, lineno, fields[3]),
                                              SourceLine(src_file, lineno) >>,
                              src_file, src_lineno, name)

\* The handler of `except PyboardException as e`: what is raised, with its message.
TracebackRemap(src_file, src_lineno, name, msg) ==
    LET r == RemapLoop(SplitAll(msg, "\n"), <<>>, src_file, src_lineno, name)
    IN  IF r.exc = PyboardException
        THEN [exc |-> PyboardException, msg |-> Join(r.new_lines, "\n")]
        ELSE [exc |-> ValueError, msg |-> <<>>]

--------------------------------------------------------------------------
(* Fault reports the device can send, and the remapping applied to each.  *)

\* Most lines of a fault message.
MaxLines == 2

\* Names of the registered functions the reports are remapped for.
NameF == <<"f">>
NameG == <<"g">>

\* A report line of the remote interpreter's shape:
\*   {lead}{file},{pre}{n},{fn}{trail}
TbLine(lead, file, pre, n, fn, trail) ==
    [kind |-> "tb", text |-> <<>>, lead |-> lead, file |-> file, pre |-> pre,
     n |-> n, fn |-> fn, trail |-> trail]

\* Any other line of the message.
RawLine(text) ==
    [kind |-> "raw", text |-> text, lead |-> <<>>, file |-> <<>>, pre |-> <<>>,
     n |-> 0, fn |-> <<>>, trail |-> <<>>]

RenderLine(d) ==
    IF d.kind = "raw" THEN d.text
    ELSE d.lead \o d.file \o <<",">> \o d.pre \o IntToStr(d.n) \o <<",">> \o d.fn \o d.trail

LinePre == <<" ", "l", "i", "n", "e", " ">>

\* Lines whose line field holds an integer.
GoodLines ==
    { TbLine(<<" ", " ">>, FileStdin, LinePre, 3, InPrefix \o NameF, <<"\r">>),
      TbLine(<<>>, FileStdin, LinePre, 1, InPrefix \o NameF, <<>>),
      TbLine(<<" ", " ">>, FileStdin, LinePre, 12, InPrefix \o NameG, <<>>),
      TbLine(<<" ", " ">>, FileStdin, <<" ", "L", "I", "N", "E", ":">>, 2, InPrefix \o NameG, <<" ">>),
      TbLine(<<" ", " ">>, <<"F", "i", "l", "e", " ", "\"", "x", ".", "p", "y", "\"">>, LinePre, 3, InPrefix \o NameF, <<>>),
      TbLine(<<" ", " ">>, FileStdin \o <<" ">>, LinePre, 2, InPrefix \o NameF, <<>>),
      TbLine(<<" ", " ">>, FileStdin, LinePre, 3, InPrefix \o NameF \o <<",", " ", "x">>, <<>>),
      TbLine(<<" ", " ">>, FileStdin, LinePre, 2, <<" ">> \o InPrefix \o NameG, <<>>),
      RawLine(<<"T", "r", "a", "c", "e", "b", "a", "c", "k", " ", "(", "m", "o", "s", "t", " ", "r", "e", "c", "e", "n", "t", " ", "c", "a", "l", "l", " ", "l", "a", "s", "t", ")", ":", "\r">>),
      RawLine(<<"V", "a", "l", "u", "e", "E", "r", "r", "o", "r", ":", " ", "a", ",", "b">>),
      RawLine(<<>>) }

\* Lines of the remote shape whose line field holds no integer: text that the
\* device-side program put into its own exception message.
BadLines ==
    { RawLine(FileStdin \o <<",", " ", "o", "o", "p", "s", ",">> \o InPrefix \o NameF),
      RawLine(FileStdin \o <<",", " ", "l", " ", "7", ",">> \o InPrefix \o NameG) }

ReportLines == GoodLines \cup BadLines

Reports == UNION { [1..k -> ReportLines] : k \in 1..MaxLines }

\* The message text of a report: its lines joined by newlines.
RECURSIVE RenderAll(_)
RenderAll(ds) == IF ds = <<>> THEN <<>> ELSE <<RenderLine(Head(ds))>> \o RenderAll(Tail(ds))

ReportText(ds) == Join(RenderAll(ds), "\n")

\* Host start lines of the registered functions (see SrcFileLines), and one
\* beyond the end of the file.
SrcLinenos == {1, 4, 11}

TbInit ==
    /\ tbLines \in Reports
    /\ tbMsg = ReportText(tbLines)
    /\ tbName \in {NameF, NameG}
    /\ tbLineno \in SrcLinenos
    /\ tbOut = [exc |-> "none", msg |-> <<>>]
    /\ tbPc = "ready"

TbOff ==
    /\ tbLines = <<>>
    /\ tbMsg = <<>>
    /\ tbName = <<>>
    /\ tbLineno = 0
    /\ tbOut = [exc |-> "none", msg |-> <<>>]
    /\ tbPc = "off"

\* The remote command raised PyboardException(tbMsg): the handler runs.
TbRemap ==
    /\ tbPc = "ready"
    /\ tbOut' = TracebackRemap(SrcFile, tbLineno, tbName, tbMsg)
    /\ tbPc' = "done"
    /\ UNCHANGED <<tbLines, tbMsg, tbName, tbLineno, notTb>>

--------------------------------------------------------------------------
(* C9: which lines of a fault message are rewritten, and to what.          *)

\* The stripped line has a first and a second comma, the text before the first
\* is exactly File "<stdin>" and the text after the second is exactly " in name".
C9_Selected(d, name) ==
    LET t == Strip(RenderLine(d))
    IN  \E i, j \in 1..Len(t) :
            /\ i < j
            /\ t[i] = "," /\ t[j] = ","
            /\ \A k \in 1..(j - 1) : t[k] = "," => k = i
            /\ SubSeq(t, 1, i - 1) = FileStdin
            /\ SubSeq(t, j + 1, Len(t)) = InPrefix \o name

\* The host source text at a line of the host file, "" outside the file.
C9_HostText(n) ==
    IF n \in 1..Len(SrcFileLines) THEN Strip(SrcFileLines[n]) ELSE <<>>

\* What the claim says a line becomes: itself, or the rewritten line followed
\* by the host source text at the corrected line.
C9_Expected(d, name, src_lineno) ==
    IF C9_Selected(d, name)
    THEN << <<" ", " ", "F", "i", "l", "e", " ", "\"">> \o SrcFile \o <<"\"", ",", " ", "l", "i", "n", "e", " ">>
                \o IntToStr(d.n - 1 + src_lineno) \o <<",", " ", "i", "n", " ">> \o name,
            <<" ", " ", " ", " ">> \o C9_HostText(d.n - 1 + src_lineno) >>
    ELSE << RenderLine(d) >>

RECURSIVE C9_ExpectedAll(_, _, _)
C9_ExpectedAll(ds, name, src_lineno) ==
    IF ds = <<>> THEN <<>>
    ELSE C9_Expected(Head(ds), name, src_lineno)
            \o C9_ExpectedAll(Tail(ds), name, src_lineno)

\* Every selected line carries a line field of six characters and an integer.
C9_LineFieldsHoldIntegers ==
    \A i \in 1..Len(tbLines) : C9_Selected(tbLines[i], tbName) => tbLines[i].kind = "tb"

\* C9: for a fault message whose selected lines carry an integer line field, the
\* remapped message is the original one, line by line and in order, with exactly
\* the lines whose file field is File "<stdin>" and whose function field is
\* " in name" replaced by `  File "{src_file}", line {n - 1 + src_lineno}, in {name}`
\* and one added line holding the host source text at that line.
C9_RewriteExactlySelected ==
    (tbPc = "done" /\ C9_LineFieldsHoldIntegers)
        => /\ tbOut.exc = PyboardException
           /\ tbOut.msg = Join(C9_ExpectedAll(tbLines, tbName, tbLineno), "\n")

\* A remapped message of two lines, the first rewritten (with host text found)
\* and the second kept.
C9_Witness ==
    /\ tbPc = "done"
    /\ tbOut.exc = PyboardException
    /\ Len(tbLines) = 2
    /\ C9_Selected(tbLines[1], tbName)
    /\ C9_HostText(tbLines[1].n - 1 + tbLineno) # <<>>
    /\ ~C9_Selected(tbLines[2], tbName)
    /\ tbLines[2].kind = "tb"
    /\ tbLines[2].file = FileStdin

--------------------------------------------------------------------------
(* Task and thread registration: _Executer, _TaskExecuter, _ThreadExecuter. *)

\* Longest chain of devices one function is registered on.
MaxLevel == 3

Devices == {"D1", "D2"}

Kinds == {"task", "thread"}

\* Host functions of SrcFile that can be registered: name and start line,
\* as getsource reports them.
NameBelayT == <<"_", "b", "e", "l", "a", "y", "_", "t">>
NameDBelay == <<"_", "_", "b", "e", "l", "a", "y">>
NameDunder == <<"_", "_", "s", "_", "_">>
NameDX == <<"_", "_", "x">>

HostFunctions ==
    { [name |-> NameF, lineno |-> 1],
      [name |-> NameBelayT, lineno |-> 7],
      [name |-> NameDBelay, lineno |-> 8],
      [name |-> NameDunder, lineno |-> 9],
      [name |-> NameDX, lineno |-> 10] }

\* A check that leaves out the names wrapped in double underscores.
IsReservedNamePrefixOnly(name) ==
    \/ StartsWith(name, <<"_", "b", "e", "l", "a", "y">>)
    \/ StartsWith(name, <<"_", "_", "b", "e", "l", "a", "y">>)

\* The condition of _Executer.__setattr__ under which the name is refused.
IsReservedName(name) ==
    \/ StartsWith(name, <<"_", "b", "e", "l", "a", "y">>)
    \/ StartsWith(name, <<"_", "_", "b", "e", "l", "a", "y">>)
    \/ (StartsWith(name, <<"_", "_">>) /\ EndsWith(name, <<"_", "_">>))

\* Python values that cross the boundary or that the proxies build.
NoneVal == [tag |-> "none", n |-> 0, items |-> <<>>]
Lit(n) == [tag |-> "lit", n |-> n, items |-> <<>>]
ListVal(items) == [tag |-> "list", n |-> 0, items |-> items]

\* Values a device-side function returns.
Results == {1, 2}

NoReg == [status |-> "none", kind |-> "", dev |-> "", name |-> <<>>,
          register |-> FALSE, execs |-> 0]

NoCallee == [fn |-> 0, multi |-> FALSE]

NoCall == [kind |-> "none", exc |-> "", msg |-> <<>>, val |-> NoneVal]

RegInit ==
    /\ hostFn \in HostFunctions
    /\ funcs = <<>>
    /\ ns = {}
    /\ regOut = NoReg
    /\ callee = NoCallee
    /\ callStack = <<>>
    /\ callLog = <<>>
    /\ callOut = NoCall

RegOff ==
    /\ hostFn = [name |-> <<>>, lineno |-> 0]
    /\ funcs = <<>>
    /\ ns = {}
    /\ regOut = NoReg
    /\ callee = NoCallee
    /\ callStack = <<>>
    /\ callLog = <<>>
    /\ callOut = NoCall

\* hasattr(f, "_belay_level"): f is a proxy (its index in funcs), not a host function (0).
HasLevel(f) == f # 0

\* setattr(self, name, executer): the namespace with the attribute stored; the
\* executer is that of the proxy built last.
SetAttr(space, dev, kind, name, ex) ==
    { a \in space : ~(a.dev = dev /\ a.kind = kind /\ a.name = name) }
        \cup { [dev |-> dev, kind |-> kind, name |-> name, ex |-> ex] }

\* multi_executer._belay_level of the proxy being built around f.
NewLevel(f) == IF HasLevel(f) THEN 1 + funcs[f].level ELSE 1

\* A registration that checks the name before it sends the source.
RegistrationOutcomeCheckFirst(register, name, sent) ==
    IF register /\ IsReservedName(name)
    THEN [status |-> "SpecialFunctionNameError", execs |-> 0]
    ELSE IF ~sent THEN [status |-> PyboardException, execs |-> 1]
    ELSE [status |-> "ok", execs |-> 1]

\* How a registration ends and how many commands it had the device execute:
\* the source is sent first (self._belay_device(src_code, minify=minify)), and
\* only `if register: setattr(self, name, executer)` looks at the name.
RegistrationOutcome(register, name, sent) ==
    IF ~sent THEN [status |-> PyboardException, execs |-> 1]
    ELSE IF register /\ IsReservedName(name)
    THEN [status |-> "SpecialFunctionNameError", execs |-> 1]
    ELSE [status |-> "ok", execs |-> 1]

\* One application of device.task / device.thread to f (the host function when
\* f = 0, else the proxy funcs[f]). The source is sent to the device first; the
\* device may answer with a fault.
Register(kind, dev, f, register, sent) ==
    LET name == IF HasLevel(f) THEN funcs[f].name ELSE hostFn.name
        lineno == IF HasLevel(f) THEN funcs[f].lineno ELSE hostFn.lineno
        proxy == [kind |-> kind, dev |-> dev, name |-> name, lineno |-> lineno,
                  inner |-> f, level |-> NewLevel(f)]
        end == RegistrationOutcome(register, name, sent)
    IN  /\ callStack = <<>>
        /\ Len(funcs) < MaxLevel
        /\ callLog' = <<>>
        /\ callOut' = NoCall
        /\ callStack' = <<>>
        /\ callee' = NoCallee
        /\ regOut' = [status |-> end.status, kind |-> kind, dev |-> dev, name |-> name,
                      register |-> register, execs |-> end.execs]
        /\ IF end.status # "ok"
           THEN UNCHANGED <<funcs, ns>>
           ELSE /\ funcs' = Append(funcs, proxy)
                /\ ns' = IF register
                         THEN SetAttr(ns, dev, kind, name, Len(funcs) + 1)
                         ELSE ns
        /\ UNCHANGED <<hostFn, notReg>>

\* The program registers its function on a first device.
RegisterFunction ==
    \E kind \in Kinds, dev \in Devices, register \in BOOLEAN, sent \in BOOLEAN :
        /\ funcs = <<>>
        /\ Register(kind, dev, 0, register, sent)

\* The program registers, on a further device, the proxy that the previous
\* registration returned.
RegisterProxy ==
    \E kind \in Kinds, dev \in Devices, register \in BOOLEAN, sent \in BOOLEAN :
        /\ funcs # <<>>
        /\ Register(kind, dev, Len(funcs), register, sent)

------
(* Calls of the proxies: executer, multi_executer, _traceback_execute.    *)

\* Fault messages a device sends for a failing call of f.
FaultReports ==
    { << RawLine(<<"T", "b", ":", "\r">>),
         TbLine(<<" ", " ">>, FileStdin, LinePre, 2, InPrefix \o NameF, <<"\r">>) >>,
      << RawLine(FileStdin \o <<",", " ", "l", " ", "7", ",">> \o InPrefix \o NameF) >> }

Frame(fn, multi) == [fn |-> fn, multi |-> multi, stage |-> "start", res |-> NoneVal]

Top == callStack[Len(callStack)]

SetTop(frame) == [callStack EXCEPT ![Len(callStack)] = frame]

Event(ev, fn, val) == [ev |-> ev, fn |-> fn, dev |-> funcs[fn].dev, val |-> val]

\* The host calls the proxy that the last registration returned (a multi_executer).
CallProxy ==
    \E p \in {Len(funcs)} \ {0} :
        /\ callStack = <<>>
        /\ callStack' = << Frame(p, TRUE) >>
        /\ callee' = [fn |-> p, multi |-> TRUE]
        /\ callLog' = <<>>
        /\ callOut' = NoCall
        /\ regOut' = NoReg
        /\ UNCHANGED <<hostFn, funcs, ns, notReg>>

\* The host calls an attribute of a namespace (the executer stored by setattr).
CallAttribute ==
    \E a \in ns :
        /\ callStack = <<>>
        /\ callStack' = << Frame(a.ex, FALSE) >>
        /\ callee' = [fn |-> a.ex, multi |-> FALSE]
        /\ callLog' = <<>>
        /\ callOut' = NoCall
        /\ regOut' = NoReg
        /\ UNCHANGED <<hostFn, funcs, ns, notReg>>

\* executer: _traceback_execute sends the command to the proxy's device.
Send ==
    /\ callStack # <<>>
    /\ Top.stage = "start"
    /\ callStack' = SetTop([Top EXCEPT !.stage = "sent"])
    /\ callLog' = Append(callLog, Event("send", Top.fn, NoneVal))
    /\ UNCHANGED <<hostFn, funcs, ns, regOut, callee, callOut, notReg>>

\* What executer returns for the device's response: the deserialized result of
\* a task; nothing for a thread.
ExecuterResult(kind, response) == IF kind = "task" THEN response ELSE NoneVal

\* The device answers; executer returns.
Receive ==
    \E r \in Results :
        LET response == IF funcs[Top.fn].kind = "task" THEN Lit(r) ELSE NoneVal
        IN  /\ callStack # <<>>
            /\ Top.stage = "sent"
            /\ (funcs[Top.fn].kind = "thread" => r = 1)
            /\ callStack' = SetTop([Top EXCEPT !.stage = "got",
                                       !.res = ExecuterResult(funcs[Top.fn].kind, response)])
            /\ callLog' = Append(callLog, Event("recv", Top.fn, response))
            /\ UNCHANGED <<hostFn, funcs, ns, regOut, callee, callOut, notReg>>

\* The device answers with a fault: the handler of _traceback_execute remaps
\* the message and raises; no frame of the call catches it.
ReceiveFault ==
    \E report \in FaultReports :
        LET raised == TracebackRemap(SrcFile, funcs[Top.fn].lineno,
                                     funcs[Top.fn].name, ReportText(report))
        IN  /\ callStack # <<>>
            /\ Top.stage = "sent"
            /\ callStack' = <<>>
            /\ callLog' = Append(callLog, [Event("fault", Top.fn, NoneVal)
                                            EXCEPT !.val = [NoneVal EXCEPT !.items = report]])
            /\ callOut' = [kind |-> "raise", exc |-> raised.exc, msg |-> raised.msg,
                           val |-> NoneVal]
            /\ UNCHANGED <<hostFn, funcs, ns, regOut, callee, notReg>>

\* A fan-out that calls f without waiting for executer's response.
CallInnerBeforeResponse ==
    /\ callStack # <<>>
    /\ Top.stage = "sent"
    /\ Top.multi
    /\ HasLevel(funcs[Top.fn].inner)
    /\ callStack' = Append(SetTop([Top EXCEPT !.stage = "inner"]),
                           Frame(funcs[Top.fn].inner, TRUE))
    /\ UNCHANGED <<hostFn, funcs, ns, regOut, callee, callLog, callOut, notReg>>

\* multi_executer, after executer returned: f has a level, so f is called.
CallInner ==
    /\ callStack # <<>>
    /\ Top.stage = "got"
    /\ Top.multi
    /\ HasLevel(funcs[Top.fn].inner)
    /\ callStack' = Append(SetTop([Top EXCEPT !.stage = "inner"]),
                           Frame(funcs[Top.fn].inner, TRUE))
    /\ UNCHANGED <<hostFn, funcs, ns, regOut, callee, callLog, callOut, notReg>>

\* A combination that puts this level's result first.
CombineOwnFirst(level, inner, res) ==
    IF level = 1 THEN ListVal(<<res, inner>>) ELSE ListVal(<<res>> \o inner.items)

\* res = [f(...), res] when f._belay_level == 1, else [*f(...), res]
Combine(level, inner, res) ==
    IF level = 1 THEN ListVal(<<inner, res>>) ELSE ListVal(inner.items \o <<res>>)

\* A frame returns: to the host, or to the multi_executer that called it.
Return ==
    /\ callStack # <<>>
    /\ \/ Top.stage = "ret"
       \/ Top.stage = "got" /\ ~(Top.multi /\ HasLevel(funcs[Top.fn].inner))
    /\ IF Len(callStack) = 1
       THEN /\ callStack' = <<>>
            /\ callOut' = [kind |-> "return", exc |-> "", msg |-> <<>>, val |-> Top.res]
       ELSE LET caller == callStack[Len(callStack) - 1]
                f == funcs[caller.fn].inner
            IN  /\ callStack' =
                       [SubSeq(callStack, 1, Len(callStack) - 1)
                           EXCEPT ![Len(callStack) - 1] =
                               [caller EXCEPT !.stage = "ret",
                                              !.res = Combine(funcs[f].level, Top.res,
                                                              caller.res)]]
                /\ callOut' = callOut
    /\ UNCHANGED <<hostFn, funcs, ns, regOut, callee, callLog, notReg>>

--------------------------------------------------------------------------
(* C5: reserved names.                                                     *)

\* The name starts with _belay or __belay, or starts and ends with two underscores.
C5_Reserved(name) ==
    LET n == Len(name)
        Has(i, c) == i >= 1 /\ i <= n /\ name[i] = c
        BelayAt(i) == /\ Has(i, "b") /\ Has(i + 1, "e") /\ Has(i + 2, "l")
                      /\ Has(i + 3, "a") /\ Has(i + 4, "y")
    IN  \/ Has(1, "_") /\ BelayAt(2)
        \/ Has(1, "_") /\ Has(2, "_") /\ BelayAt(3)
        \/ Has(1, "_") /\ Has(2, "_") /\ Has(n - 1, "_") /\ Has(n, "_")

\* C5: a registration whose source reached the device fails with the
\* reserved-name error exactly when register is true and the name is reserved,
\* and then the namespaces (and the proxies held) are as before; a registration
\* with register true under any other name succeeds and the name is then an
\* attribute of that namespace; no attribute of a namespace ever has a reserved name.
C5_ReservedNamesRefused ==
    [][ LET o == regOut'
        IN  /\ o.status \in {"ok", "SpecialFunctionNameError"}
                => ((o.status = "SpecialFunctionNameError")
                        <=> (o.register /\ C5_Reserved(o.name)))
            /\ o.status = "SpecialFunctionNameError" => (ns' = ns /\ funcs' = funcs)
            /\ (o.status = "ok" /\ o.register)
                => \E a \in ns' : a.dev = o.dev /\ a.kind = o.kind /\ a.name = o.name
            /\ \A a \in ns' : ~C5_Reserved(a.name)
      ]_vars

\* __s__ was registered without an attribute, then refused with one.
C5_Witness ==
    /\ regOut.status = "SpecialFunctionNameError"
    /\ regOut.name = NameDunder
    /\ regOut.kind = "thread"
    /\ Len(funcs) = 1

\* C20: a registration that has failed with the reserved-name error has had
\* the device execute exactly one command, the one that carried the source,
\* and was one with register true; a registration with register false never
\* fails with the reserved-name error, whatever the name.
C20_SourceSentBeforeNameCheck ==
    /\ regOut.status = "SpecialFunctionNameError" =>
            /\ regOut.execs = 1
            /\ regOut.register
    /\ (regOut.status # "none" /\ ~regOut.register) =>
            /\ regOut.status \in {"ok", PyboardException}
            /\ regOut.execs = 1

\* __belay was registered as a task without an attribute, and the returned
\* proxy was then refused as a task with one.
C20_Witness ==
    /\ regOut.status = "SpecialFunctionNameError"
    /\ regOut.name = NameDBelay
    /\ regOut.kind = "task"
    /\ regOut.execs = 1
    /\ Len(funcs) = 1
    /\ funcs[1].kind = "task"

--------------------------------------------------------------------------
(* C6, C7, C10: calls of a function registered on a chain of devices.      *)

\* The proxies of the chain that ends in proxy p, in registration order.
RECURSIVE Chain(_)
Chain(p) == IF funcs[p].inner = 0 THEN <<p>> ELSE Chain(funcs[p].inner) \o <<p>>

LogEvents(ev) == { i \in 1..Len(callLog) : callLog[i].ev = ev }

\* The response that the device of proxy q gave during the call.
ResponseOf(q) ==
    callLog[CHOOSE i \in LogEvents("recv") : callLog[i].fn = q].val

\* The k-th remote command the call sent.
NthSend(k) ==
    callLog[CHOOSE i \in LogEvents("send") :
                Cardinality({ j \in LogEvents("send") : j <= i }) = k]

AllTasks(chain) == \A k \in 1..Len(chain) : funcs[chain[k]].kind = "task"

\* C6: the proxy returned by the N-th task registration of a chain (N >= 2) has
\* level N and returns the sequence of the N devices' results, in registration order.
C6_ChainedResultsInRegistrationOrder ==
    (callee.multi /\ callOut.kind = "return")
        => LET chain == Chain(callee.fn)
               N == Len(chain)
           IN  (N >= 2 /\ AllTasks(chain))
                   => /\ funcs[callee.fn].level = N
                      /\ callOut.val.tag = "list"
                      /\ Len(callOut.val.items) = N
                      /\ \A k \in 1..N : callOut.val.items[k] = ResponseOf(chain[k])

\* A chain of three tasks over both devices returned three results, the first
\* and the last differing.
C6_Witness ==
    /\ callee.multi
    /\ callOut.kind = "return"
    /\ Len(Chain(callee.fn)) = 3
    /\ AllTasks(Chain(callee.fn))
    /\ funcs[1].dev = "D1" /\ funcs[2].dev = "D2" /\ funcs[3].dev = "D2"
    /\ callOut.val.items[1] # callOut.val.items[3]

\* Every command but the first is sent right after the response to the one before.
C7_OneAtATime ==
    \A i \in LogEvents("send") :
        i > 1 => /\ callLog[i - 1].ev = "recv"
                 /\ \E j \in LogEvents("send") : j = i - 2

C10_SameFaultRaised ==
    (callLog # <<>> /\ callLog[Len(callLog)].ev = "fault")
        => LET e == callLog[Len(callLog)]
           IN  /\ callStack = <<>>
               /\ callOut.kind = "raise"
               /\ callOut.exc = PyboardException
               /\ Cardinality({ i \in LogEvents("send") : callLog[i].fn = e.fn }) = 1

\* C16: a call of the proxy that a thread registration returned, over a chain
\* of thread registrations of any length, has sent the command to every
\* device of the chain and returns None.
C16_ThreadProxyReturnsNothing ==
    (callee.multi /\ callOut.kind = "return")
        => LET chain == Chain(callee.fn)
           IN  (\A k \in 1..Len(chain) : funcs[chain[k]].kind = "thread")
                   => /\ Cardinality(LogEvents("send")) = Len(chain)
                      /\ callOut.val = NoneVal

\* C17: a call of the attribute that a task registration stored on the
\* namespace does what a call of the proxy it returned does: it sends the
\* command to every device of the chain and, for a chain of two or more,
\* returns the sequence of their results in registration order.
C17_AttributeIsReturnedProxy ==
    (~callee.multi /\ callee.fn # 0 /\ callOut.kind = "return")
        => LET chain == Chain(callee.fn)
               N == Len(chain)
           IN  AllTasks(chain)
                   => /\ Cardinality(LogEvents("send")) = N
                      /\ N >= 2 =>
                            /\ callOut.val.tag = "list"
                            /\ Len(callOut.val.items) = N
                            /\ \A k \in 1..N : callOut.val.items[k] = ResponseOf(chain[k])

--------------------------------------------------------------------------
(* Paths, file contents and digests.                                       *)

\* The characters of the paths, in code point order.
CharOrder == <<".", "/", "_", "a", "b", "c", "d", "e", "f", "g", "i", "k", "l",
               "m", "n", "o", "p", "r", "t", "w", "x", "y">>

CharCode(c) == CHOOSE i \in 1..Len(CharOrder) : CharOrder[i] = c

\* a < b for two strings.
RECURSIVE StrLess(_, _)
StrLess(a, b) ==
    IF b = <<>> THEN FALSE
    ELSE IF a = <<>> THEN TRUE
    ELSE IF Head(a) = Head(b) THEN StrLess(Tail(a), Tail(b))
    ELSE CharCode(Head(a)) < CharCode(Head(b))

\* a < b for two sequences of path components.
RECURSIVE PartsLess(_, _)
PartsLess(a, b) ==
    IF b = <<>> THEN FALSE
    ELSE IF a = <<>> THEN TRUE
    ELSE IF Head(a) = Head(b) THEN PartsLess(Tail(a), Tail(b))
    ELSE StrLess(Head(a), Head(b))

\* Path.__lt__: paths compare by their components.
PathLess(a, b) == PartsLess(SplitAll(a, "/"), SplitAll(b, "/"))

\* sorted(...) of local objects, by path.
RECURSIVE SortObjects(_)
SortObjects(S) ==
    IF S = {} THEN <<>>
    ELSE LET m == CHOOSE x \in S : \A y \in S \ {x} : PathLess(x.path, y.path)
         IN  <<m>> \o SortObjects(S \ {m})

\* list.sort() of device paths, as strings.
RECURSIVE SortStrings(_)
SortStrings(S) ==
    IF S = {} THEN <<>>
    ELSE LET m == CHOOSE x \in S : \A y \in S \ {x} : StrLess(x, y)
         IN  <<m>> \o SortStrings(S \ {m})

\* Position of the last occurrence of c in s, 0 when absent.
RECURSIVE RFind(_, _)
RFind(s, c) ==
    IF s = <<>> THEN 0 ELSE IF s[Len(s)] = c THEN Len(s) ELSE RFind(SubSeq(s, 1, Len(s) - 1), c)

\* Path.name: the last component.
PathName(path) == DropFirst(path, RFind(path, "/"))

\* Path.suffix: the last component from its last dot, if that dot is neither
\* its first nor its last character.
PathSuffix(path) ==
    LET name == PathName(path)
        i == RFind(name, ".")
    IN  IF 1 < i /\ i < Len(name) THEN DropFirst(name, i - 1) ELSE <<>>

\* The directory a device path lies in; <<>> is the root.
ParentDir(path) == TakeFirst(path, RFind(path, "/") - 1)

DotPy == <<".", "p", "y">>

\* One line of source with its comment and trailing blanks removed.
MinifyLine(line) ==
    LET i == Find(line, "#")
    IN  RStrip(IF i = 0 THEN line ELSE TakeFirst(line, i - 1))

RECURSIVE MinifyLines(_)
MinifyLines(lines) ==
    IF lines = <<>> THEN <<>>
    ELSE LET l == MinifyLine(Head(lines))
         IN  (IF l = <<>> THEN <<>> ELSE <<l>>) \o MinifyLines(Tail(lines))

\* minify_code: comments, trailing blanks and blank lines removed.
Minify(text) == Join(MinifyLines(SplitAll(text, "\n")), "\n")

\* SHA-256 of a content, taken to be free of collisions.
Sha256(content) == <<"sha256">> \o content

\* The digest __belay_hfs reports for a path that holds no file.
NoDigest == <<>>

--------------------------------------------------------------------------
(* Device.sync: arguments, local folders and device filesystems.           *)

\* Most sync calls in a row.
MaxRuns == 2

KeepNone == [tag |-> "none", items |-> <<>>]
KeepStr(x) == [tag |-> "str", items |-> <<x>>]
KeepList(xs) == [tag |-> "list", items |-> xs]

\* keep = ["boot.py", "webrepl_cfg.py"]
DefaultKeep == << <<"b", "o", "o", "t", ".", "p", "y">>,
                  <<"w", "e", "b", "r", "e", "p", "l", "_", "c", "f", "g", ".", "p", "y">> >>

KeepArgs ==
    { KeepNone,
      KeepStr(<<"k", ".", "m", "e">>),
      KeepList(<< <<"/", "k", ".", "m", "e">>, <<"a", ".", "p", "y">> >>) }

LocalFile(path, content) == [path |-> path, isdir |-> FALSE, content |-> content]
LocalDir(path) == [path |-> path, isdir |-> TRUE, content |-> <<>>]

\* a.py and d/b.py carry comments and blank lines; k.me is no Python file.
ARaw == <<"x", " ", "#", "c", "\n", "\n", "y", "\n">>
BRaw == <<"z", " ", " ", "\n">>
KNew == <<"k", " ", "#", "\n">>

LocalFolders ==
    { {},
      { LocalFile(<<"a", ".", "p", "y">>, ARaw) },
      { LocalFile(<<"a", ".", "p", "y">>, ARaw), LocalDir(<<"d">>), LocalFile(<<"d", "/", "b", ".", "p", "y">>, BRaw) },
      { LocalFile(<<"a", ".", "p", "y">>, ARaw), LocalFile(<<"k", ".", "m", "e">>, KNew) },
      { LocalDir(<<"d">>) } }

\* The function with the given (path, content) pairs.
FilesFrom(pairs) ==
    [p \in { q[1] : q \in pairs } |-> (CHOOSE q \in pairs : q[1] = p)[2]]

\* What the device holds before the first sync: /a.py as uploaded before (from
\* the minified or from the original source) or not at all; /k.me, /x.txt and
\* /boot.py or not; and /d as a directory (empty, with b.py, with old.py), as a
\* file, or not at all.
DeviceDirStates ==
    { [files |-> {}, dirs |-> {}],
      [files |-> {}, dirs |-> { <<"/", "d">> }],
      [files |-> { << <<"/", "d", "/", "b", ".", "p", "y">>, Minify(BRaw) >> }, dirs |-> { <<"/", "d">> }],
      [files |-> { << <<"/", "d", "/", "o", "l", "d", ".", "p", "y">>, <<"o">> >> }, dirs |-> { <<"/", "d">> }],
      [files |-> { << <<"/", "d">>, <<"f">> >> }, dirs |-> {}] }

DeviceStates ==
    { [files |-> FilesFrom(a \cup k \cup x \cup d.files), dirs |-> d.dirs] :
        a \in { {}, { << <<"/", "a", ".", "p", "y">>, Minify(ARaw) >> }, { << <<"/", "a", ".", "p", "y">>, ARaw >> } },
        k \in { {}, { << <<"/", "k", ".", "m", "e">>, <<"k">> >>, << <<"/", "b", "o", "o", "t", ".", "p", "y">>, <<"b">> >> } },
        x \in { {}, { << <<"/", "x", ".", "t", "x", "t">>, <<"x">> >> } },
        d \in DeviceDirStates }

\* A remote command (or the digests it answered) of the run-th sync call.
Cmd(run, cmd, arg) == [run |-> run, cmd |-> cmd, arg |-> arg]

SyncEnvInit ==
    /\ folderKind \in {"dir", "file", "missing"}
    /\ local \in IF folderKind = "dir" THEN LocalFolders ELSE {{}}
    /\ syMinify \in BOOLEAN
    /\ syKeep \in KeepArgs
    /\ \E d \in DeviceStates : devFiles = d.files /\ devDirs = d.dirs

SyncIdle ==
    /\ all_files = {}
    /\ all_dirs = <<>>
    /\ src_files = <<>>
    /\ dst_files = <<>>
    /\ dst_hashes = <<>>
    /\ syIdx = 0
    /\ syPc = "idle"
    /\ syLog = <<>>
    /\ syOut = "none"
    /\ syRun = 0
    /\ syStart = devFiles
    /\ syStartDirs = devDirs

SyncInit == SyncEnvInit /\ SyncIdle

SyncOff ==
    /\ folderKind = "missing"
    /\ local = {}
    /\ syMinify = FALSE
    /\ syKeep = KeepNone
    /\ devFiles = FilesFrom({})
    /\ devDirs = {}
    /\ all_files = {}
    /\ all_dirs = <<>>
    /\ src_files = <<>>
    /\ dst_files = <<>>
    /\ dst_hashes = <<>>
    /\ syIdx = 0
    /\ syPc = "off"
    /\ syLog = <<>>
    /\ syOut = "none"
    /\ syRun = 0
    /\ syStart = devFiles
    /\ syStartDirs = devDirs

--------------------------------------------------------------------------
(* Device.sync: the call, step by step.                                    *)

Range(seq) == { seq[i] : i \in 1..Len(seq) }

Min(a, b) == IF a < b THEN a ELSE b

\* keep as a list of absolute device paths.
NormalizeKeep(keep) ==
    LET given == IF keep.tag = "none" THEN DefaultKeep ELSE keep.items
    IN  [i \in 1..Len(given) |->
            IF given[i][1] = "/" THEN given[i] ELSE <<"/">> \o given[i]]

IsFile(obj) == ~obj.isdir
IsDir(obj) == obj.isdir

\* f"/{src.relative_to(folder)}"
DstPath(obj) == <<"/">> \o obj.path

DstPaths(objs) == [i \in 1..Len(objs) |-> DstPath(objs[i])]

\* src_files and src_dirs, from sorted(folder.rglob("*"))
SrcFiles(folder) == SelectSeq(SortObjects(folder), IsFile)
SrcDirs(folder) == SelectSeq(SortObjects(folder), IsDir)

\* A discard that forgets the kept paths.
DiscardListFilesOnly(dsts, keep) == dsts

\* dst_files + keep, with keep = [x for x in keep if x not in dst_files]
DiscardList(dsts, keep) ==
    dsts \o SelectSeq(NormalizeKeep(keep), LAMBDA x : x \notin Range(dsts))

\* A digest taken of the original file although the minified copy is uploaded.
LocalDigestOfOriginal(minify, obj) == Sha256(obj.content)

\* The content sync uploads for a local file: the minified copy of a .py file
\* when minify is set, the file itself otherwise.
UploadSource(minify, obj) ==
    IF minify /\ PathSuffix(obj.path) = DotPy THEN Minify(obj.content) ELSE obj.content

\* src_hash = _local_hash_file(src)
LocalDigest(minify, obj) == Sha256(UploadSource(minify, obj))

\* An upload of every file, whatever its digests.
NeedsUploadAlways(src_hash, dst_hash) == TRUE

\* src_hash != dst_hash
NeedsUpload(src_hash, dst_hash) == src_hash # dst_hash

\* A check that accepts any number of digests.
HashCountAny(hashes, dsts) == TRUE

\* len(dst_hashes) != len(dst_files)  (negated)
HashCountOk(hashes, dsts) == Len(hashes) = Len(dsts)

\* __belay_hfs on the device: one digest per path, NoDigest where no file is.
RemoteDigests(dsts, files) ==
    [i \in 1..Len(dsts) |->
        IF dsts[i] \in DOMAIN files THEN Sha256(files[dsts[i]]) ELSE NoDigest]

\* What the host may receive for the digests: the device's list, or a list
\* that a broken helper made one shorter or one longer.
HashResponses(dsts, files) ==
    LET honest == RemoteDigests(dsts, files)
    IN  { honest, honest \o <<NoDigest>> }
            \cup (IF honest = <<>> THEN {} ELSE { Tail(honest) })

\* __belay_mkdirs on the device: each directory in turn; a path that exists
\* is left alone, a directory whose parent is no directory fails the command.
RECURSIVE Mkdirs(_, _, _)
Mkdirs(dirs, files, have) ==
    IF dirs = <<>> THEN [ok |-> TRUE, dirs |-> have]
    ELSE LET d == Head(dirs)
         IN  IF d \in have \/ d \in DOMAIN files
             THEN Mkdirs(Tail(dirs), files, have)
             ELSE IF ParentDir(d) # <<>> /\ ParentDir(d) \notin have
             THEN [ok |-> FALSE, dirs |-> have]
             ELSE Mkdirs(Tail(dirs), files, have \cup {d})

\* fs_put needs the directory of the destination, and no directory in its place.
CanPut(dst, dirs) == (ParentDir(dst) = <<>> \/ ParentDir(dst) \in dirs) /\ dst \notin dirs

PutFile(files, dst, content) ==
    [p \in DOMAIN files \cup {dst} |-> IF p = dst THEN content ELSE files[p]]

RemoveFiles(files, gone) == [p \in DOMAIN files \ gone |-> files[p]]

Inside(path, dir) == StartsWith(path, dir \o <<"/">>)

\* sync_end on the device, second half: every directory of all_dirs, last
\* first, is removed if it is empty.
RECURSIVE RemoveDirs(_, _, _)
RemoveDirs(dirs, files, have) ==
    IF dirs = <<>> THEN have
    ELSE LET d == dirs[Len(dirs)]
             empty == \A p \in DOMAIN files \cup have : ~Inside(p, d)
         IN  RemoveDirs(SubSeq(dirs, 1, Len(dirs) - 1), files,
                        IF empty THEN have \ {d} ELSE have)

\* raise Exception
PlainException == "Exception"

SyncFails(exc) == syPc' = "failed" /\ syOut' = exc

\* A sync that takes the device's snapshot before it looks at the folder.
SyncStartSnapshotFirst ==
    /\ syPc \in {"idle", "done"}
    /\ syRun < MaxRuns
    /\ syRun' = syRun + 1
    /\ syStart' = devFiles
    /\ syStartDirs' = devDirs
    /\ src_files' = <<>> /\ dst_files' = <<>> /\ dst_hashes' = <<>> /\ syIdx' = 0
    /\ syLog' = Append(syLog, Cmd(syRun + 1, "sync_begin", <<>>))
    /\ all_files' = DOMAIN devFiles
    /\ all_dirs' = SortStrings(devDirs)
    /\ IF folderKind # "dir" THEN SyncFails(ValueError)
       ELSE syPc' = "begun" /\ syOut' = "none"
    /\ UNCHANGED <<folderKind, local, syMinify, syKeep, devFiles, devDirs, notSync>>

\* sync is called: the folder is checked, then sync_begin runs on the device.
SyncStart ==
    /\ syPc \in {"idle", "done"}
    /\ syRun < MaxRuns
    /\ syRun' = syRun + 1
    /\ syStart' = devFiles
    /\ syStartDirs' = devDirs
    /\ src_files' = <<>> /\ dst_files' = <<>> /\ dst_hashes' = <<>> /\ syIdx' = 0
    /\ IF folderKind # "dir"
       THEN /\ SyncFails(ValueError)
            /\ syLog' = syLog
            /\ UNCHANGED <<all_files, all_dirs>>
       ELSE \E fault \in BOOLEAN :
            /\ syLog' = Append(syLog, Cmd(syRun + 1, "sync_begin", <<>>))
            /\ IF fault
               THEN SyncFails(PyboardException) /\ UNCHANGED <<all_files, all_dirs>>
               ELSE /\ all_files' = DOMAIN devFiles
                    /\ all_dirs' = SortStrings(devDirs)
                    /\ syPc' = "begun"
                    /\ syOut' = "none"
    /\ UNCHANGED <<folderKind, local, syMinify, syKeep, devFiles, devDirs, notSync>>

\* The folder is walked; destinations and kept paths are discarded from all_files.
SyncDiscard ==
    /\ syPc = "begun"
    /\ src_files' = SrcFiles(local)
    /\ dst_files' = DstPaths(SrcFiles(local))
    /\ LET arg == DiscardList(DstPaths(SrcFiles(local)), syKeep)
       IN  IF arg = <<>>
           THEN syPc' = "discarded" /\ UNCHANGED <<all_files, syLog, syOut>>
           ELSE \E fault \in BOOLEAN :
                /\ syLog' = Append(syLog, Cmd(syRun, "discard", arg))
                /\ IF fault
                   THEN SyncFails(PyboardException) /\ UNCHANGED all_files
                   ELSE /\ all_files' = all_files \ Range(arg)
                        /\ syPc' = "discarded"
                        /\ syOut' = syOut
    /\ UNCHANGED <<folderKind, local, syMinify, syKeep, devFiles, devDirs, all_dirs,
                   dst_hashes, syIdx, syRun, syStart, syStartDirs, notSync>>

\* The destination directories are made on the device.
SyncMkdirs ==
    /\ syPc = "discarded"
    /\ LET dirs == DstPaths(SrcDirs(local))
           made == Mkdirs(dirs, devFiles, devDirs)
       IN  IF dirs = <<>>
           THEN syPc' = "dirs" /\ UNCHANGED <<devDirs, syLog, syOut>>
           ELSE \E fault \in BOOLEAN :
                /\ syLog' = Append(syLog, Cmd(syRun, "mkdirs", dirs))
                /\ IF fault
                   THEN SyncFails(PyboardException) /\ UNCHANGED devDirs
                   ELSE /\ devDirs' = made.dirs
                        /\ IF made.ok
                           THEN syPc' = "dirs" /\ syOut' = syOut
                           ELSE SyncFails(PyboardException)
    /\ UNCHANGED <<folderKind, local, syMinify, syKeep, devFiles, all_files, all_dirs,
                   src_files, dst_files, dst_hashes, syIdx, syRun, syStart, syStartDirs, notSync>>

\* The remote digests are asked for, and counted.
SyncHashes ==
    /\ syPc = "dirs"
    /\ \/ /\ syLog' = Append(syLog, Cmd(syRun, "hfs", dst_files))
          /\ SyncFails(PyboardException)
          /\ UNCHANGED <<dst_hashes, syIdx>>
       \/ \E hashes \in HashResponses(dst_files, devFiles) :
            /\ syLog' = syLog \o << Cmd(syRun, "hfs", dst_files), Cmd(syRun, "digests", hashes) >>
            /\ dst_hashes' = hashes
            /\ IF HashCountOk(hashes, dst_files)
               THEN syPc' = "files" /\ syIdx' = 1 /\ syOut' = syOut
               ELSE SyncFails(PlainException) /\ syIdx' = syIdx
    /\ UNCHANGED <<folderKind, local, syMinify, syKeep, devFiles, devDirs, all_files,
                   all_dirs, src_files, dst_files, syRun, syStart, syStartDirs, notSync>>

\* Number of rounds of `for src, dst, dst_hash in zip(...)`.
ZipLen == Min(Len(src_files), Min(Len(dst_files), Len(dst_hashes)))

\* One round of the loop: the file is uploaded if its digest differs.
SyncFile ==
    /\ syPc = "files"
    /\ syIdx <= ZipLen
    /\ LET src == src_files[syIdx]
           dst == dst_files[syIdx]
       IN  IF ~NeedsUpload(LocalDigest(syMinify, src), dst_hashes[syIdx])
           THEN syIdx' = syIdx + 1 /\ UNCHANGED <<devFiles, syPc, syLog, syOut>>
           ELSE \E fault \in BOOLEAN :
                /\ syLog' = Append(syLog, Cmd(syRun, "fs_put", dst))
                /\ IF fault \/ ~CanPut(dst, devDirs)
                   THEN SyncFails(PyboardException) /\ UNCHANGED <<devFiles, syIdx>>
                   ELSE /\ devFiles' = PutFile(devFiles, dst, UploadSource(syMinify, src))
                        /\ syIdx' = syIdx + 1
                        /\ UNCHANGED <<syPc, syOut>>
    /\ UNCHANGED <<folderKind, local, syMinify, syKeep, devDirs, all_files, all_dirs,
                   src_files, dst_files, dst_hashes, syRun, syStart, syStartDirs, notSync>>

\* A cleanup that does not wait for the loop over the files to end.
SyncEndEarly ==
    /\ syPc = "files"
    /\ syLog' = Append(syLog, Cmd(syRun, "sync_end", <<>>))
    /\ \E fault \in BOOLEAN :
        IF fault
        THEN SyncFails(PyboardException) /\ UNCHANGED <<devFiles, devDirs>>
        ELSE /\ devFiles' = RemoveFiles(devFiles, all_files)
             /\ devDirs' = RemoveDirs(all_dirs, RemoveFiles(devFiles, all_files), devDirs)
             /\ syPc' = "done"
             /\ syOut' = "ok"
    /\ UNCHANGED <<folderKind, local, syMinify, syKeep, all_files, all_dirs, src_files,
                   dst_files, dst_hashes, syIdx, syRun, syStart, syStartDirs, notSync>>

\* sync_end runs on the device: what is left in all_files is deleted, then the
\* directories of all_dirs that are empty.
SyncEnd ==
    /\ syPc = "files"
    /\ syIdx > ZipLen
    /\ syLog' = Append(syLog, Cmd(syRun, "sync_end", <<>>))
    /\ \E fault \in BOOLEAN :
        IF fault
        THEN SyncFails(PyboardException) /\ UNCHANGED <<devFiles, devDirs>>
        ELSE /\ devFiles' = RemoveFiles(devFiles, all_files)
             /\ devDirs' = RemoveDirs(all_dirs, RemoveFiles(devFiles, all_files), devDirs)
             /\ syPc' = "done"
             /\ syOut' = "ok"
    /\ UNCHANGED <<folderKind, local, syMinify, syKeep, all_files, all_dirs, src_files,
                   dst_files, dst_hashes, syIdx, syRun, syStart, syStartDirs, notSync>>

--------------------------------------------------------------------------
(* Properties of Device.sync.                                              *)

\* The commands of the run-th sync call, in the order issued.
RunLog(run) == SelectSeq(syLog, LAMBDA e : e.run = run)

Uploads(run) == SelectSeq(RunLog(run), LAMBDA e : e.cmd = "fs_put")

Completed == syPc = "done" /\ syOut = "ok"

\* Destination paths of the local files, from the folder itself.
C1_Destinations == { <<"/">> \o o.path : o \in { x \in local : ~x.isdir } }

\* The kept paths, each given a leading "/" if it has none.
C1_Kept ==
    LET given == IF syKeep.tag = "none" THEN Range(DefaultKeep) ELSE Range(syKeep.items)
    IN  { IF Head(k) = "/" THEN k ELSE <<"/">> \o k : k \in given }

\* C1: when a sync call has completed without error, every file of the
\* device snapshot taken at its start whose path is the destination of a local
\* file still exists, every kept path of the snapshot still exists, and every
\* other file of the snapshot is gone.
C1_SnapshotReconciled ==
    Completed =>
        \A p \in DOMAIN syStart :
            IF p \in C1_Destinations \cup C1_Kept
            THEN p \in DOMAIN devFiles
            ELSE p \notin DOMAIN devFiles

\* A completed sync whose snapshot held a destination file, a kept file that
\* is no destination, and a file that is neither.
C1_Witness ==
    /\ Completed
    /\ \E p \in DOMAIN syStart : p \in C1_Destinations
    /\ \E p \in DOMAIN syStart : p \in C1_Kept \ C1_Destinations /\ p \in DOMAIN devFiles
    /\ \E p \in DOMAIN syStart : p \notin C1_Destinations \cup C1_Kept /\ p \notin DOMAIN devFiles

\* C2: a sync call that follows a completed sync call with the same
\* arguments, folder and device uploads no file.
C2_SecondRunUploadsNothing ==
    \A run \in 2..syRun : Uploads(run) = <<>>

\* The first run uploaded files, the second ran to completion.
C2_Witness ==
    /\ syRun = 2
    /\ Completed
    /\ Len(Uploads(1)) >= 2
    /\ syMinify

\* C3: a sync call on a folder that does not exist or is no directory fails
\* with ValueError, and that call has issued no remote command.
C3_BadFolderFailsBeforeAnyCommand ==
    (folderKind # "dir" /\ syRun >= 1) =>
        /\ syPc = "failed"
        /\ syOut = ValueError
        /\ RunLog(syRun) = <<>>

\* A sync call on a path that is a file has failed.
C3_Witness ==
    /\ folderKind = "file"
    /\ syRun = 1
    /\ syOut = ValueError
    /\ DOMAIN devFiles # {}

\* C4: when the digests received in a sync call are not as many as the
\* destination files asked about, the call fails with the plain Exception of
\* the count check and has uploaded no file.
C4_DigestCountMismatchFails ==
    \A i \in 1..Len(syLog) :
        (syLog[i].cmd = "digests" /\ syLog[i].run = syRun
            /\ Len(syLog[i].arg) # Len(dst_files)) =>
                /\ syPc = "failed"
                /\ syOut = PlainException
                /\ Uploads(syRun) = <<>>

\* One digest too few came back for two files, of which the device lacked one.
C4_Witness ==
    /\ syOut = PlainException
    /\ Len(dst_files) = 2
    /\ Len(dst_hashes) = 1
    /\ \E i \in 1..Len(dst_files) : dst_files[i] \notin DOMAIN devFiles

\* The digest of what sync uploads for a local file.
C18_UploadDigest(obj) ==
    Sha256(IF syMinify /\ PathSuffix(obj.path) = DotPy THEN Minify(obj.content) ELSE obj.content)

\* The destinations, among the first n, whose digests differ, in order.
C18_Differing(n) ==
    LET idx == SelectSeq([i \in 1..n |-> i],
                         LAMBDA i : C18_UploadDigest(src_files[i]) # dst_hashes[i])
    IN  [k \in 1..Len(idx) |-> dst_files[idx[k]]]

\* The files the loop of the current run has dealt with so far.
C18_Processed ==
    IF syPc \in {"files", "done"} THEN syIdx - 1
    ELSE IF syPc = "failed" /\ syOut = PyboardException /\ syIdx >= 1
            /\ syLog[Len(syLog)].cmd = "fs_put"
    THEN syIdx
    ELSE IF syPc = "failed" /\ syIdx >= 1 /\ syOut = PyboardException THEN syIdx - 1
    ELSE 0

\* C18: the uploads of a run are, in the order of the destinations, exactly
\* the files dealt with whose upload source has a digest that differs from
\* the digest the device returned for the destination.
C18_UploadedIffDigestsDiffer ==
    syRun >= 1 =>
        [k \in 1..Len(Uploads(syRun)) |-> Uploads(syRun)[k].arg] = C18_Differing(C18_Processed)

\* A completed run that uploaded one of its two files and skipped the other.
C18_Witness ==
    /\ Completed
    /\ Len(dst_files) = 2
    /\ Len(Uploads(syRun)) = 1
    /\ syMinify

\* C19: sync_end is the last command of a run and is issued when every local
\* file has been dealt with; a run that failed before it has issued no
\* sync_end and has deleted no file and no directory of the device.
C19_CleanupOnlyAfterAllFiles ==
    /\ \A i \in 1..Len(RunLog(syRun)) :
            RunLog(syRun)[i].cmd = "sync_end" =>
                /\ i = Len(RunLog(syRun))
                /\ syIdx = Len(src_files) + 1
                /\ [k \in 1..Len(Uploads(syRun)) |-> Uploads(syRun)[k].arg]
                        = C18_Differing(Len(src_files))
    /\ (syPc = "failed" /\ \A i \in 1..Len(RunLog(syRun)) : RunLog(syRun)[i].cmd # "sync_end") =>
            /\ DOMAIN syStart \subseteq DOMAIN devFiles
            /\ syStartDirs \subseteq devDirs

\* A run that failed at an upload, on a device that held files and a
\* directory sync_end would have removed.
C19_Witness ==
    /\ syPc = "failed"
    /\ syLog # <<>>
    /\ syLog[Len(syLog)].cmd = "fs_put"
    /\ \E p \in DOMAIN syStart : p \notin C1_Destinations \cup C1_Kept
    /\ syStartDirs # {}
    /\ Len(src_files) = 2

--------------------------------------------------------------------------
(* The command line: `sync port folder`, and the Device it constructs.     *)

\* The methods class Device defines.
DeviceMethods == {"__init__", "_exec_snippet", "__call__", "sync", "_traceback_execute"}

\* What `with` needs of the class of its context expression.
ContextManagerMethods == {"__enter__", "__exit__"}

\* What the interpreter raises for a `with` on an object that lacks them:
\* AttributeError up to Python 3.10, TypeError from 3.11 on.
WithErrors == {"AttributeError", "TypeError"}

NoList == <<>>
NoneArg == "None"

CliArguments ==
    [ port : {"/dev/ttyUSB0", "ws://192.168.1.1"},
      folder : {"app"},
      dst : {"/", "/lib"},
      password : {"", "pw"},
      keep : { NoList, <<"k.me">> },
      ignore : { NoList, <<"*.pyc">> },
      mpy_cross_binary : { NoneArg, "mpy-cross" } ]

IsWebrepl(port) == port = "ws://192.168.1.1"

\* x if x else None
OrNone(list) == IF list # NoList THEN list ELSE NoneArg

CliInit ==
    /\ cliArgs \in CliArguments
    /\ cliKeep = NoneArg
    /\ cliIgnore = NoneArg
    /\ cliPc = "start"
    /\ transport = "closed"
    /\ soft_reset = FALSE
    /\ cliCmds = <<>>
    /\ cliScope = "none"
    /\ cliExc = "none"

CliOff ==
    /\ cliArgs = [port |-> "", folder |-> "", dst |-> "", password |-> "",
                  keep |-> NoList, ignore |-> NoList, mpy_cross_binary |-> NoneArg]
    /\ cliKeep = NoneArg
    /\ cliIgnore = NoneArg
    /\ cliPc = "off"
    /\ transport = "closed"
    /\ soft_reset = FALSE
    /\ cliCmds = <<>>
    /\ cliScope = "none"
    /\ cliExc = "none"

CliRaises(exc) == cliPc' = "exit" /\ cliExc' = exc

\* The command starts: empty keep and ignore lists become None.
CliStart ==
    /\ cliPc = "start"
    /\ cliKeep' = OrNone(cliArgs.keep)
    /\ cliIgnore' = OrNone(cliArgs.ignore)
    /\ cliPc' = "Pyboard"
    /\ UNCHANGED <<cliArgs, transport, soft_reset, cliCmds, cliScope, cliExc, notCli>>

\* Device(port, password=password), first statement: the transport is opened,
\* or cannot be.
DeviceOpen ==
    /\ cliPc = "Pyboard"
    /\ \/ transport' = "open" /\ cliPc' = "enter_raw_repl" /\ cliExc' = cliExc
       \/ transport' = transport /\ CliRaises(PyboardException)
    /\ UNCHANGED <<cliArgs, cliKeep, cliIgnore, soft_reset, cliCmds, cliScope, notCli>>

\* The constructor enters the raw REPL, with a soft reset unless over WebREPL.
DeviceRawRepl ==
    /\ cliPc = "enter_raw_repl"
    /\ soft_reset' = ~IsWebrepl(cliArgs.port)
    /\ \/ cliPc' = "startup" /\ cliExc' = cliExc
       \/ CliRaises(PyboardException)
    /\ UNCHANGED <<cliArgs, cliKeep, cliIgnore, transport, cliCmds, cliScope, notCli>>

\* The constructor, given no startup code, runs the startup snippets.
DeviceStartup ==
    /\ cliPc = "startup"
    /\ cliCmds' = Append(cliCmds, "startup,convenience_imports")
    /\ \/ cliPc' = "with" /\ cliExc' = cliExc
       \/ CliRaises(PyboardException)
    /\ UNCHANGED <<cliArgs, cliKeep, cliIgnore, transport, soft_reset, cliScope, notCli>>

\* `with Device(...) as device`: the statement looks for __enter__ and
\* __exit__ on class Device before it runs anything of the body.
CliWith ==
    /\ cliPc = "with"
    /\ IF ContextManagerMethods \subseteq DeviceMethods
       THEN cliScope' = "body" /\ cliPc' = "body" /\ cliExc' = cliExc
       ELSE \E exc \in WithErrors : cliScope' = "left" /\ CliRaises(exc)
    /\ UNCHANGED <<cliArgs, cliKeep, cliIgnore, transport, soft_reset, cliCmds, notCli>>

\* C8: once the scope of a Device is left, its transport is closed.
C8_TransportClosedAfterScope ==
    cliScope = "left" => transport = "closed"

\* C15: a command that has come to its with statement goes into the body,
\* where the sync is invoked, instead of failing at the entry, and has torn
\* down its Device if it ends with an error.
C15_SyncInvokedAndErrorsTearDown ==
    cliScope # "none" =>
        /\ cliExc # "none" => transport = "closed"
        /\ cliExc \notin WithErrors

--------------------------------------------------------------------------
(* A fault inside a registered function: from the transmitted source to    *)
(* the line the host reports.                                              *)

\* The functions of the host file: name, first line, number of lines.
SourceFunctions ==
    { [name |-> NameF, lineno |-> 1, length |-> 3],
      [name |-> NameG, lineno |-> 4, length |-> 3],
      [name |-> NameBelayT, lineno |-> 7, length |-> 1],
      [name |-> NameDBelay, lineno |-> 8, length |-> 1],
      [name |-> NameDunder, lineno |-> 9, length |-> 1],
      [name |-> NameDX, lineno |-> 10, length |-> 1] }

RECURSIVE ConcatAll(_)
ConcatAll(parts) == IF parts = <<>> THEN <<>> ELSE Head(parts) \o ConcatAll(Tail(parts))

\* src_code, src_lineno, src_file = getsource(f): the text of the definition.
GetSource(fn) == ConcatAll(SubSeq(SrcFileLines, fn.lineno, fn.lineno + fn.length - 1))

\* "@__belay\n"
BelayDecorator == <<"@", "_", "_", "b", "e", "l", "a", "y", "\n">>

\* The text passed to self._belay_device(src_code, minify=minify).
SentSource(kind, fn, minify) ==
    LET src_code == IF kind = "task" THEN BelayDecorator \o GetSource(fn) ELSE GetSource(fn)
    IN  IF minify THEN Minify(src_code) ELSE src_code

\* The lines of a text; a final newline ends the last line.
TextLines(text) ==
    LET parts == SplitAll(text, "\n")
    IN  IF parts[Len(parts)] = <<>> THEN SubSeq(parts, 1, Len(parts) - 1) ELSE parts

ErrorTexts ==
    { <<"Z", "e", "r", "o", "D", "i", "v", "i", "s", "i", "o", "n", "E", "r", "r", "o", "r", ":">>,
      <<"K", "e", "y", "E", "r", "r", "o", "r", ":", " ", "1">> }

\* The report of the remote interpreter for a fault at line k of the text in
\* which the function was defined.
FaultMessage(name, k, err) ==
    Join(<< <<"T", "r", "a", "c", "e", "b", "a", "c", "k">>,
            <<" ", " ">> \o FileStdin \o <<",", " ", "l", "i", "n", "e", " ">> \o NatToStr(k)
                \o <<",">> \o InPrefix \o name,
            err >>, "\n")

NoFault == [line |-> 0, err |-> <<>>]
NoRaise == [exc |-> "none", msg |-> <<>>]

SrcInit ==
    /\ srcKind \in Kinds
    /\ srcFn \in SourceFunctions
    /\ srcMinify \in BOOLEAN
    /\ srcSent = <<>>
    /\ srcFault = NoFault
    /\ srcRaised = NoRaise
    /\ srcPc = "start"

SrcOff ==
    /\ srcKind = "task"
    /\ srcFn = [name |-> <<>>, lineno |-> 0, length |-> 0]
    /\ srcMinify = FALSE
    /\ srcSent = <<>>
    /\ srcFault = NoFault
    /\ srcRaised = NoRaise
    /\ srcPc = "off"

\* The registration transmits the source.
SrcRegister ==
    /\ srcPc = "start"
    /\ srcSent' = SentSource(srcKind, srcFn, srcMinify)
    /\ srcPc' = "registered"
    /\ UNCHANGED <<srcKind, srcFn, srcMinify, srcFault, srcRaised, notSrc>>

\* The proxy is called and the function faults on the device, at one of the
\* lines of its definition.
SrcFaults ==
    /\ srcPc = "registered"
    /\ \E k \in 1..Len(TextLines(srcSent)), err \in ErrorTexts :
        /\ TextLines(srcSent)[k] \o <<"\n">> # BelayDecorator
        /\ srcFault' = [line |-> k, err |-> err]
    /\ srcPc' = "faulted"
    /\ UNCHANGED <<srcKind, srcFn, srcMinify, srcSent, srcRaised, notSrc>>

\* _traceback_execute(src_file, src_lineno, name, cmd) handles the fault.
SrcRemap ==
    /\ srcPc = "faulted"
    /\ srcRaised' = TracebackRemap(SrcFile, srcFn.lineno, srcFn.name,
                                   FaultMessage(srcFn.name, srcFault.line, srcFault.err))
    /\ srcPc' = "raised"
    /\ UNCHANGED <<srcKind, srcFn, srcMinify, srcSent, srcFault, notSrc>>

\* The line of the host file that holds line k of the transmitted text.
C11_HostLineOf(k) ==
    CHOOSE h \in srcFn.lineno..(srcFn.lineno + srcFn.length - 1) :
        SrcFileLines[h] = TextLines(srcSent)[k] \o <<"\n">>

\* C11: for a registration without minification, task or thread, the raised
\* message names the line of the host file that holds the faulting line of
\* the transmitted text.
C11_RemappedToHostLine ==
    (srcPc = "raised" /\ ~srcMinify) =>
        \E i \in 1..Len(TextLines(srcRaised.msg)) :
            TextLines(srcRaised.msg)[i] =
                RewrittenLine(SrcFile, C11_HostLineOf(srcFault.line), InPrefix \o srcFn.name)

--------------------------------------------------------------------------
(* packagemanager/models.py: the configuration of a project.                *)

\* Values of a manifest: a string, a mapping with uri and maybe
\* rename_to_init, a list, an integer.
StrV(u) == [tag |-> "str", uri |-> u, rename |-> "unset", items |-> <<>>]
MapV(u, r) == [tag |-> "dict", uri |-> u, rename |-> r, items |-> <<>>]
ListV(items) == [tag |-> "list", uri |-> "", rename |-> "unset", items |-> items]
IntV == [tag |-> "int", uri |-> "", rename |-> "unset", items |-> <<>>]

Letters == {"a", "b", "d", "e", "i", "m", "n", "v", "x", "_"}

\* str.isidentifier(), for names of letters, digits and other characters.
IsIdentifier(name) ==
    /\ name # <<>>
    /\ name[1] \in Letters
    /\ \A i \in 1..Len(name) : name[i] \in Letters \cup DigitChars

NameMain == <<"m", "a", "i", "n">>
NameDev == <<"d", "e", "v">>
Name1Bad == <<"1", "b", "a", "d">>
NameDash == <<"a", "-", "b">>

GroupNames == { NameMain, NameDev, Name1Bad, NameDash }

NoExc == "none"
ValidationError == "ValidationError"
NotImplementedError == "NotImplementedError"

\* One element of a list value, as the preprocessor leaves it.
PreprocessElem(elem) ==
    IF elem.tag = "str" THEN [exc |-> NoExc, val |-> MapV(elem.uri, "unset")]
    ELSE IF elem.tag = "list" THEN [exc |-> ValueError, val |-> elem]
    ELSE IF elem.tag = "dict" THEN [exc |-> NoExc, val |-> elem]
    ELSE [exc |-> NotImplementedError, val |-> elem]

\* The exception of the first result that has one.
FirstExc(results) ==
    IF \A i \in 1..Len(results) : results[i].exc = NoExc THEN NoExc
    ELSE results[CHOOSE i \in 1..Len(results) :
                    /\ results[i].exc # NoExc
                    /\ \A j \in 1..(i - 1) : results[j].exc = NoExc].exc

\* A bare string that is not marked for renaming.
BareStringNoRename(uri) == << MapV(uri, "unset") >>

\* [{"uri": group_value, "rename_to_init": True}]
BareString(uri) == << MapV(uri, "true") >>

\* One group_value, as the preprocessor leaves it.
PreprocessValue(group_value) ==
    IF group_value.tag = "str"
    THEN [exc |-> NoExc, val |-> BareString(group_value.uri)]
    ELSE IF group_value.tag = "list"
    THEN LET elems == [i \in 1..Len(group_value.items) |-> PreprocessElem(group_value.items[i])]
         IN  [exc |-> FirstExc(elems),
              val |-> [i \in 1..Len(elems) |-> elems[i].val]]
    ELSE IF group_value.tag = "dict"
    THEN [exc |-> NoExc, val |-> << group_value >>]
    ELSE [exc |-> ValueError, val |-> <<>>]

\* _dependencies_preprocessor: a mapping is a sequence of <<name, value>>.
DependenciesPreprocessor(dependencies) ==
    LET vals == [i \in 1..Len(dependencies) |-> PreprocessValue(dependencies[i][2])]
    IN  [exc |-> FirstExc(vals),
         out |-> [i \in 1..Len(dependencies) |-> << dependencies[i][1], vals[i].val >>]]

\* _dependencies_name_validator
DependenciesNameValidator(dependencies) ==
    IF \A i \in 1..Len(dependencies) : IsIdentifier(dependencies[i][1])
    THEN NoExc ELSE ValueError

\* DependencySourceConfig, from a mapping: rename_to_init is False by default.
DependencySource(elem) == [uri |-> elem.uri, rename_to_init |-> (elem.rename = "true")]

\* The field `dependencies`: preprocessor, then the typed lists, then the names.
DependenciesField(dependencies) ==
    LET pre == DependenciesPreprocessor(dependencies)
    IN  IF pre.exc # NoExc THEN [exc |-> pre.exc, val |-> <<>>]
        ELSE IF DependenciesNameValidator(pre.out) # NoExc
        THEN [exc |-> ValueError, val |-> <<>>]
        ELSE [exc |-> NoExc,
              val |-> [i \in 1..Len(pre.out) |->
                        << pre.out[i][1],
                           [j \in 1..Len(pre.out[i][2]) |-> DependencySource(pre.out[i][2][j])] >>]]

\* What a model raises for the exception of one of its validators:
\* ValueError becomes a validation error, anything else passes as it is.
Raised(exc) == IF exc = ValueError THEN ValidationError ELSE exc

\* GroupConfig(**value)
GroupConfig(value) ==
    LET deps == DependenciesField(value.dependencies)
    IN  IF deps.exc # NoExc THEN [exc |-> Raised(deps.exc), val |-> <<>>]
        ELSE [exc |-> NoExc, val |-> [optional |-> value.optional, dependencies |-> deps.val]]

\* main_not_in_group
MainNotInGroup(v) ==
    IF \E i \in 1..Len(v) : v[i][1] = NameMain THEN ValueError ELSE NoExc

\* The field `group`: every value becomes a GroupConfig, then the validator.
GroupField(group) ==
    LET vals == [i \in 1..Len(group) |-> GroupConfig(group[i][2])]
    IN  IF FirstExc(vals) # NoExc THEN [exc |-> FirstExc(vals), val |-> <<>>]
        ELSE IF MainNotInGroup(group) # NoExc THEN [exc |-> ValueError, val |-> <<>>]
        ELSE [exc |-> NoExc, val |-> [i \in 1..Len(group) |-> << group[i][1], vals[i].val >>]]

NoConfig == [dependencies |-> <<>>, group |-> <<>>]

\* BelayConfig(**input): the fields in the order of the class; the errors of
\* all fields are reported together, another exception ends the construction.
BelayConfig(input) ==
    LET deps == DependenciesField(input.dependencies)
        group == GroupField(input.group)
    IN  IF deps.exc \notin {NoExc, ValueError} THEN [exc |-> deps.exc, config |-> NoConfig]
        ELSE IF group.exc \notin {NoExc, ValueError, ValidationError}
        THEN [exc |-> group.exc, config |-> NoConfig]
        ELSE IF deps.exc # NoExc \/ group.exc # NoExc
        THEN [exc |-> ValidationError, config |-> NoConfig]
        ELSE [exc |-> NoExc, config |-> [dependencies |-> deps.val, group |-> group.val]]

\* Values a manifest gives for one dependency group.
DependencyValues ==
    { StrV("github.com/foo/bar"),
      ListV(<< StrV("a.py"), StrV("b.py") >>),
      ListV(<< MapV("c.py", "true"), StrV("a.py") >>),
      ListV(<< StrV("a.py"), ListV(<< StrV("b.py") >>) >>),
      ListV(<< IntV >>),
      ListV(<< >>),
      MapV("d.py", "unset"),
      IntV }

\* `dependencies` mappings: none, one group, or dev and a second group.
DependencyMaps ==
    { <<>> }
        \cup { << <<n, v>> >> : n \in GroupNames, v \in DependencyValues }
        \cup { << <<NameDev, StrV("a.py")>>, <<n, ListV(<< StrV("b.py") >>)>> >> :
                    n \in GroupNames \ {NameDev} }

GroupDependencyMaps ==
    { <<>>,
      << <<NameDev, StrV("a.py")>> >>,
      << <<Name1Bad, StrV("a.py")>> >>,
      << <<NameDev, ListV(<< ListV(<<>>) >>)>> >> }

\* `group` mappings: none, or one named group.
GroupMaps ==
    { <<>> }
        \cup { << <<n, [optional |-> FALSE, dependencies |-> d]>> >> :
                    n \in GroupNames, d \in GroupDependencyMaps }

NoOutcome == [exc |-> NoExc, config |-> NoConfig]

CfgInit ==
    /\ cfgInput \in [dependencies : DependencyMaps, group : GroupMaps]
    /\ cfgOut = NoOutcome
    /\ cfgPc = "manifest"

CfgOff ==
    /\ cfgInput = NoConfig
    /\ cfgOut = NoOutcome
    /\ cfgPc = "off"

\* The manifest section is made into a BelayConfig.
Construct ==
    /\ cfgPc = "manifest"
    /\ cfgOut' = BelayConfig(cfgInput)
    /\ cfgPc' = "constructed"
    /\ UNCHANGED <<cfgInput, notCfg>>

Keys(mapping) == { mapping[i][1] : i \in 1..Len(mapping) }

AllDependencyKeys(input) ==
    Keys(input.dependencies)
        \cup UNION { Keys(input.group[i][2].dependencies) : i \in 1..Len(input.group) }

\* C12: no config is made of a manifest whose group mapping has the key
\* "main" or a key that is no identifier, or that has a dependencies mapping,
\* at the top or in a group, with a key that is no identifier.
C12_BadNamesRefused ==
    (cfgPc = "constructed"
        /\ \/ NameMain \in Keys(cfgInput.group)
           \/ \E n \in Keys(cfgInput.group) : ~IsIdentifier(n)
           \/ \E n \in AllDependencyKeys(cfgInput) : ~IsIdentifier(n))
    => cfgOut.exc # NoExc

\* The typed list the schema holds for a value of each shape.
C13_Expected(v) ==
    IF v.tag = "str" THEN << [uri |-> v.uri, rename_to_init |-> TRUE] >>
    ELSE IF v.tag = "dict" THEN << [uri |-> v.uri, rename_to_init |-> (v.rename = "true")] >>
    ELSE [j \in 1..Len(v.items) |->
            IF v.items[j].tag = "str"
            THEN [uri |-> v.items[j].uri, rename_to_init |-> FALSE]
            ELSE [uri |-> v.items[j].uri, rename_to_init |-> (v.items[j].rename = "true")]]

C13_Normalized(input, output) ==
    /\ Len(output) = Len(input)
    /\ \A i \in 1..Len(input) :
        /\ output[i][1] = input[i][1]
        /\ output[i][2] = C13_Expected(input[i][2])

C13_HasNestedList(mapping) ==
    \E i \in 1..Len(mapping) :
        /\ mapping[i][2].tag = "list"
        /\ \E j \in 1..Len(mapping[i][2].items) : mapping[i][2].items[j].tag = "list"

\* C13: a dependencies mapping with a list inside a list makes the
\* construction fail; in a config that was made, every dependencies mapping
\* has the names of its input, in order, each with the list its shape gives:
\* a bare string one entry marked for renaming, a list one entry per element
\* in order (a string element unmarked, a mapping element as it is), a
\* mapping a list of itself.
C13_NormalizedByShape ==
    cfgPc = "constructed" =>
        /\ (C13_HasNestedList(cfgInput.dependencies)
                \/ \E i \in 1..Len(cfgInput.group) :
                        C13_HasNestedList(cfgInput.group[i][2].dependencies))
            => cfgOut.exc # NoExc
        /\ cfgOut.exc = NoExc =>
            /\ C13_Normalized(cfgInput.dependencies, cfgOut.config.dependencies)
            /\ Len(cfgOut.config.group) = Len(cfgInput.group)
            /\ \A i \in 1..Len(cfgInput.group) :
                    C13_Normalized(cfgInput.group[i][2].dependencies,
                                   cfgOut.config.group[i][2].dependencies)

\* A config made of a bare string for one group and a list of a string for
\* another, and of a group with a bare string.
C13_Witness ==
    /\ cfgPc = "constructed"
    /\ cfgOut.exc = NoExc
    /\ Len(cfgInput.dependencies) = 2
    /\ cfgInput.dependencies[1][2].tag = "str"
    /\ cfgInput.dependencies[2][2].tag = "list"
    /\ Len(cfgOut.config.dependencies[2][2]) = 1
    /\ Len(cfgInput.group) = 1
    /\ Len(cfgOut.config.group[1][2].dependencies) = 1

--------------------------------------------------------------------------
(* Device.__call__: one command executed on the device, and its result.    *)

BoolVal(b) == [tag |-> "bool", n |-> IF b THEN 1 ELSE 0, items |-> <<>>]
StrVal(chars) == [tag |-> "str", n |-> 0, items |-> chars]
\* The raw text, returned when deserialize is false.
RawVal(chars) == [tag |-> "raw", n |-> 0, items |-> chars]

SyntaxError == "SyntaxError"
UnicodeDecodeError == "UnicodeDecodeError"

\* A byte that is no UTF-8.
ByteFF == "0xFF"

\* bytes.decode(): the text, unless a byte is no UTF-8.
Decode(bytes) ==
    IF \E i \in 1..Len(bytes) : bytes[i] = ByteFF
    THEN [exc |-> UnicodeDecodeError, text |-> <<>>]
    ELSE [exc |-> NoExc, text |-> bytes]

NameChars == {"N", "o", "n", "e", "T", "r", "u", "F", "a", "l", "s", "x", "_"}

\* Length of the longest prefix of s made of characters of the set.
RECURSIVE RunLength(_, _)
RunLength(s, chars) ==
    IF s = <<>> \/ Head(s) \notin chars THEN 0 ELSE 1 + RunLength(Tail(s), chars)

ParseFails(exc) == [exc |-> exc, val |-> NoneVal, rest |-> <<>>]
Parsed(val, rest) == [exc |-> NoExc, val |-> val, rest |-> rest]

\* One literal at the start of s, as ast.literal_eval reads it: a name
\* (None, True, False; any other name is refused), an integer with an
\* optional minus sign, a string in single quotes, a list in brackets.
RECURSIVE ParseLiteral(_)
RECURSIVE ParseItems(_, _)
ParseLiteral(s) ==
    IF s = <<>> THEN ParseFails(SyntaxError)
    ELSE IF Head(s) \in NameChars
    THEN LET k == RunLength(s, NameChars \cup DigitChars)
             word == TakeFirst(s, k)
         IN  IF word = <<"N", "o", "n", "e">> THEN Parsed(NoneVal, DropFirst(s, k))
             ELSE IF word = <<"T", "r", "u", "e">> THEN Parsed(BoolVal(TRUE), DropFirst(s, k))
             ELSE IF word = <<"F", "a", "l", "s", "e">> THEN Parsed(BoolVal(FALSE), DropFirst(s, k))
             ELSE ParseFails(ValueError)
    ELSE IF Head(s) \in DigitChars
    THEN LET k == RunLength(s, DigitChars)
         IN  Parsed(Lit(DigitsValue(TakeFirst(s, k), 0)), DropFirst(s, k))
    ELSE IF Head(s) = "-"
    THEN LET k == RunLength(Tail(s), DigitChars)
         IN  IF k = 0 THEN ParseFails(SyntaxError)
             ELSE Parsed(Lit(0 - DigitsValue(TakeFirst(Tail(s), k), 0)), DropFirst(s, k + 1))
    ELSE IF Head(s) = "'"
    THEN LET k == Find(Tail(s), "'")
         IN  IF k = 0 THEN ParseFails(SyntaxError)
             ELSE Parsed(StrVal(TakeFirst(Tail(s), k - 1)), DropFirst(s, k + 1))
    ELSE IF Head(s) = "["
    THEN ParseItems(LStrip(Tail(s)), <<>>)
    ELSE ParseFails(SyntaxError)

\* The elements of a list, after "[" and the elements read so far.
ParseItems(s, items) ==
    IF s = <<>> THEN ParseFails(SyntaxError)
    ELSE IF Head(s) = "]" THEN Parsed(ListVal(items), Tail(s))
    ELSE LET elem == ParseLiteral(s)
             after == LStrip(elem.rest)
         IN  IF elem.exc # NoExc THEN elem
             ELSE IF after # <<>> /\ Head(after) = ","
             THEN ParseItems(LStrip(Tail(after)), Append(items, elem.val))
             ELSE IF after # <<>> /\ Head(after) = "]"
             THEN Parsed(ListVal(Append(items, elem.val)), Tail(after))
             ELSE ParseFails(SyntaxError)

\* ast.literal_eval(res): leading blanks are dropped, one literal is read, and
\* nothing but white space may follow it.
LiteralEval(res) ==
    LET r == ParseLiteral(DropFirst(res, RunLength(res, {" ", "\t"})))
    IN  IF r.exc # NoExc THEN [exc |-> r.exc, val |-> NoneVal]
        ELSE IF Strip(r.rest) # <<>> THEN [exc |-> SyntaxError, val |-> NoneVal]
        ELSE [exc |-> NoExc, val |-> r.val]

\* A result that is parsed whether it is empty or not.
DeserializeAlways(res) == LiteralEval(res)

\* if res: return ast.literal_eval(res) else: return None
Deserialize(res) ==
    IF res # <<>> THEN LiteralEval(res) ELSE [exc |-> NoExc, val |-> NoneVal]

\* What the call gives for the bytes the transport returned.
CallResult(deserialize, bytes) ==
    LET res == Decode(bytes)
    IN  IF res.exc # NoExc THEN [exc |-> res.exc, val |-> NoneVal]
        ELSE IF deserialize THEN Deserialize(res.text)
        ELSE [exc |-> NoExc, val |-> RawVal(res.text)]

\* Commands given to the call.
Commands ==
    { <<"x", " ", "=", " ", "1", " ", "#", "c", "\n", "\n", "x">>,
      <<"f", "(", ")">> }

\* Answers of the device: nothing, literals (with the line end print adds,
\* or blanks before), texts that are no literal, and bytes that are no text.
Responses ==
    { <<>>,
      <<"1">>,
      <<"-", "2", "\r", "\n">>,
      <<"N", "o", "n", "e">>,
      <<"T", "r", "u", "e">>,
      <<"'", "a", "'">>,
      <<"[", "1", ",", " ", "'", "a", "'", "]">>,
      <<"[", "]">>,
      <<" ", "1">>,
      <<"1", " ", "2">>,
      <<"x">>,
      <<"[", "1", ",">>,
      <<"\n">>,
      <<"1", ByteFF>> }

NoResult == [exc |-> NoExc, val |-> NoneVal]

InvInit ==
    /\ invArgs \in [cmd : Commands, deserialize : BOOLEAN, minify : BOOLEAN]
    /\ invSent = <<>>
    /\ invResp = <<>>
    /\ invOut = NoResult
    /\ invPc = "called"

InvOff ==
    /\ invArgs = [cmd |-> <<>>, deserialize |-> FALSE, minify |-> FALSE]
    /\ invSent = <<>>
    /\ invResp = <<>>
    /\ invOut = NoResult
    /\ invPc = "off"

\* The command, minified if asked, is handed to the transport.
InvokeExec ==
    /\ invPc = "called"
    /\ invSent' = Append(invSent, IF invArgs.minify THEN Minify(invArgs.cmd) ELSE invArgs.cmd)
    /\ invPc' = "exec"
    /\ UNCHANGED <<invArgs, invResp, invOut, notInv>>

\* The transport returns the answer; the call decodes and returns it.
InvokeReturn ==
    /\ invPc = "exec"
    /\ \E bytes \in Responses :
        /\ invResp' = bytes
        /\ invOut' = CallResult(invArgs.deserialize, bytes)
    /\ invPc' = "done"
    /\ UNCHANGED <<invArgs, invSent, notInv>>

\* The transport reports a fault of the device; the call lets it pass.
InvokeFault ==
    /\ invPc = "exec"
    /\ invOut' = [exc |-> PyboardException, val |-> NoneVal]
    /\ invPc' = "done"
    /\ UNCHANGED <<invArgs, invSent, invResp, notInv>>

\* The literals among the answers, each with its value.
C14_Literals ==
    { << <<"1">>, Lit(1) >>,
      << <<"-", "2", "\r", "\n">>, Lit(0 - 2) >>,
      << <<"N", "o", "n", "e">>, NoneVal >>,
      << <<"T", "r", "u", "e">>, BoolVal(TRUE) >>,
      << <<"'", "a", "'">>, StrVal(<<"a">>) >>,
      << <<"[", "1", ",", " ", "'", "a", "'", "]">>, ListVal(<< Lit(1), StrVal(<<"a">>) >>) >>,
      << <<"[", "]">>, ListVal(<<>>) >>,
      << <<" ", "1">>, Lit(1) >> }

\* The answers that are text but no literal.
C14_NoLiterals == { <<"1", " ", "2">>, <<"x">>, <<"[", "1", ",">>, <<"\n">> }

C14_ParsingErrors == {SyntaxError, ValueError}

--------------------------------------------------------------------------
(* Specifications                                                          *)

NextTrace == TbRemap

InitTrace == TbInit /\ RegOff /\ SyncOff /\ CliOff /\ SrcOff /\ CfgOff /\ InvOff

SpecTrace == InitTrace /\ [][NextTrace]_vars

\* Registrations of any host function, on any namespace.
NextReg ==
    \/ RegisterFunction
    \/ RegisterProxy

InitReg == RegInit /\ TbOff /\ SyncOff /\ CliOff /\ SrcOff /\ CfgOff /\ InvOff

SpecReg == InitReg /\ [][NextReg]_vars

\* Registrations of f along a chain of devices, and calls of what they return.
NextCall ==
    \/ RegisterFunction
    \/ RegisterProxy
    \/ CallProxy
    \/ CallAttribute
    \/ Send
    \/ Receive
    \/ ReceiveFault
    \/ CallInner
    \/ Return

InitCall == RegInit /\ hostFn.name = NameF /\ TbOff /\ SyncOff /\ CliOff /\ SrcOff /\ CfgOff /\ InvOff

SpecCall == InitCall /\ [][NextCall]_vars

\* Sync calls in a row, with the same arguments, against one folder and device.
NextSync ==
    \/ SyncStart
    \/ SyncDiscard
    \/ SyncMkdirs
    \/ SyncHashes
    \/ SyncFile
    \/ SyncEnd

InitSync == SyncInit /\ TbOff /\ RegOff /\ CliOff /\ SrcOff /\ CfgOff /\ InvOff

SpecSync == InitSync /\ [][NextSync]_vars

\* One run of the sync command.
NextCli ==
    \/ CliStart
    \/ DeviceOpen
    \/ DeviceRawRepl
    \/ DeviceStartup
    \/ CliWith

InitCli == CliInit /\ TbOff /\ RegOff /\ SyncOff /\ SrcOff /\ CfgOff /\ InvOff

SpecCli == InitCli /\ [][NextCli]_vars

\* A registered function faults on the device and the host reports it.
NextSrc ==
    \/ SrcRegister
    \/ SrcFaults
    \/ SrcRemap

InitSrc == SrcInit /\ TbOff /\ RegOff /\ SyncOff /\ CliOff /\ CfgOff /\ InvOff

SpecSrc == InitSrc /\ [][NextSrc]_vars

\* A manifest section is validated.
NextCfg == Construct

InitCfg == CfgInit /\ TbOff /\ RegOff /\ SyncOff /\ CliOff /\ SrcOff /\ InvOff

SpecCfg == InitCfg /\ [][NextCfg]_vars

\* One command is executed on the device.
NextInv ==
    \/ InvokeExec
    \/ InvokeReturn
    \/ InvokeFault

InitInv == InvInit /\ TbOff /\ RegOff /\ SyncOff /\ CliOff /\ SrcOff /\ CfgOff

SpecInv == InitInv /\ [][NextInv]_vars

====
